---------------------------- MODULE Spec2Model ----------------------------
(***************************************************************************)
(* EcoFit Carbon Coach: the two FastAPI applications of the repository,    *)
(* src/api.py (version 2.0.0) and src/main.py (version 1.0.0).  Each       *)
(* serves POST /mcp/validate and POST /mcp/carbon_score, the latter with   *)
(* the modes quiz, calculate, product and challenge.                       *)
(*                                                                         *)
(* Conventions of the model                                                *)
(*   - A Python dict is a sequence of <<key, value>> pairs in insertion    *)
(*     order; a Python list is a sequence.                                 *)
(*   - An Optional value is None (the empty sequence) or Some(v) (the      *)
(*     one-element sequence <<v>>).                                        *)
(*   - A free text (the product field, a keyword) is a sequence of         *)
(*     one-character strings, so that lower() and substring alignment are  *)
(*     computed character by character.                                    *)
(*   - The CO2 weights are decimal literals with at most two decimals;     *)
(*     they are kept as integers in hundredths (2.3 is 230).  A score      *)
(*     is kept in tenths (360.0 is 3600); the error of binary floating     *)
(*     point (below 1e-12 for these sums) is not modelled.                 *)
(*   - A similarity score of rapidfuzz is the rational 200*lcs/(len1+len2),*)
(*     kept as a reduced fraction <<num, den>>.                            *)
(*   - Tip, reason and fallback strings are transliterated to ASCII;       *)
(*     an emoji is written as its name.                                    *)
(***************************************************************************)
EXTENDS Integers, Sequences, FiniteSets, TLC

----------------------------------------------------------------------------
(* Python values *)

None == <<>>

Some(v) == <<v>>

\* d.keys(), k in d, d[k] (for a key that is present) and d.get(k)
DictKeys(d) == [i \in 1..Len(d) |-> d[i][1]]

DictHas(d, k) == \E i \in 1..Len(d) : d[i][1] = k

DictGet(d, k) == d[CHOOSE i \in 1..Len(d) : d[i][1] = k][2]

DictGetOpt(d, k) == IF DictHas(d, k) THEN Some(DictGet(d, k)) ELSE None

Max(a, b) == IF a >= b THEN a ELSE b

RECURSIVE Gcd(_, _)
Gcd(a, b) == IF b = 0 THEN a ELSE Gcd(b, a % b)

\* round(n/d) for d > 0: to the nearest integer, a tie to the even one
\* (Python 3's round on the exactly represented quotient).
RoundHalfEven(n, d) ==
  LET q == n \div d
      r == n - q * d
  IN  IF 2 * r < d THEN q
      ELSE IF 2 * r > d THEN q + 1
      ELSE IF q % 2 = 0 THEN q ELSE q + 1

\* round(n/d) for any d # 0
RoundDiv(n, d) == IF d > 0 THEN RoundHalfEven(n, d) ELSE RoundHalfEven(0 - n, 0 - d)

----------------------------------------------------------------------------
(* str.lower() on the characters the inputs use *)

UpperCase ==
  <<"A","B","C","D","E","F","G","H","I","J","K","L","M",
    "N","O","P","Q","R","S","T","U","V","W","X","Y","Z">>

LowerCase ==
  <<"a","b","c","d","e","f","g","h","i","j","k","l","m",
    "n","o","p","q","r","s","t","u","v","w","x","y","z">>

LowerChar(c) ==
  IF \E i \in 1..Len(UpperCase) : UpperCase[i] = c
  THEN LowerCase[CHOOSE i \in 1..Len(UpperCase) : UpperCase[i] = c]
  ELSE c

lower(s) == [i \in 1..Len(s) |-> LowerChar(s[i])]

----------------------------------------------------------------------------
(* The module-level tables of src/api.py *)

api_VALID_TOKENS ==
  << <<"EcoFitToken12345", "919441391981">> >>

api_CO2_FACTORS ==
  << <<"transport",
        << <<"Car", 230>>,
           <<"Bus", 80>>,
           <<"Bicycle", 5>>,
           <<"Walking", 0>>,
           <<"Electric Scooter", 20>> >>>>,
     <<"shopping",
        << <<"Groceries & Food", 100>>,
           <<"Clothing & Fashion", 250>>,
           <<"Electronics & Gadgets", 300>>,
           <<"Home & Living", 150>>,
           <<"Beauty & Personal Care", 120>> >>>>,
     <<"electronics_freq",
        << <<"Every year", 250>>,
           <<"Every 2-3 years", 100>>,
           <<"Rarely", 30>> >>>> >>

CATEGORY_EMOJIS ==
  << <<"transport",
        << <<"Car", "car">>,
           <<"Bus", "bus">>,
           <<"Bicycle", "cyclist">>,
           <<"Walking", "walker">>,
           <<"Electric Scooter", "scooter">> >>>>,
     <<"shopping",
        << <<"Groceries & Food", "cart">>,
           <<"Clothing & Fashion", "dress">>,
           <<"Electronics & Gadgets", "phone">>,
           <<"Home & Living", "house">>,
           <<"Beauty & Personal Care", "lipstick">> >>>>,
     <<"electronics_freq",
        << <<"Every year", "calendar">>,
           <<"Every 2-3 years", "tear-off calendar">>,
           <<"Rarely", "hourglass">> >>>> >>

UNIQUE_TIPS ==
  << <<"transport",
        << <<"Car", << "Plan routes to avoid traffic jams - idling wastes fuel and CO2!",
             "Carpool with friends to share the ride and emissions.",
             "Use synthetic motor oil to improve engine efficiency." >>>>,
           <<"Bus", << "Travel during off-peak hours to reduce congestion and emissions.",
             "Advocate for electric buses in your community!",
             "Carry a reusable travel mug to avoid disposables." >>>>,
           <<"Bicycle", << "Keep your bike tires well-inflated for easier rides.",
             "Use rechargeable LED lights for safer night riding.",
             "Use a backpack instead of plastic bags when shopping." >>>>,
           <<"Walking", << "Walk to local shops to cut emissions and get exercise.",
             "Join walking groups to stay motivated and social.",
             "Choose eco-friendly footwear made from recycled materials." >>>>,
           <<"Electric Scooter", << "Charge during off-peak hours to reduce grid load.",
             "Maintain your battery to extend its life.",
             "Recycle scooter batteries responsibly." >>>> >>>>,
     <<"shopping",
        << <<"Groceries & Food", << "Freeze leftovers to reduce food waste.",
             "Buy local, seasonal produce to cut transport emissions.",
             "Grow herbs or veggies at home." >>>>,
           <<"Clothing & Fashion", << "Choose organic cotton or recycled fabrics.",
             "Participate in clothing swaps.",
             "Avoid fast fashion brands." >>>>,
           <<"Electronics & Gadgets", << "Buy refurbished or certified pre-owned electronics.",
             "Extend device life by upgrading batteries or parts.",
             "Recycle electronics properly." >>>>,
           <<"Home & Living", << "Use LED bulbs and smart power strips.",
             "Insulate your home to save heating/cooling energy.",
             "Pick furniture made from sustainable wood." >>>>,
           <<"Beauty & Personal Care", << "Switch to biodegradable or refillable products.",
             "Avoid microbeads and heavy plastic packaging.",
             "Try DIY natural skincare recipes." >>>> >>>>,
     <<"electronics_freq",
        << <<"Every year", << "Try using devices for 2-3 years instead of every year.",
             "Donate old devices instead of discarding.",
             "Be mindful of cloud storage energy usage." >>>>,
           <<"Every 2-3 years", << "Keep software updated to improve efficiency.",
             "Recycle chargers and cables responsibly.",
             "Backup data regularly." >>>>,
           <<"Rarely", << "You're eco-conscious already - keep it up! (green heart)",
             "Support brands with take-back programs.",
             "Share devices when possible." >>>> >>>> >>

PRODUCT_DB ==
  << <<"phone", [carbon_score |-> 70, alternatives |-> <<
           [name |-> "Refurbished phone model X", carbon_score |-> 50,
            reason |-> "Avoids new manufacturing emissions with recycled parts."],
           [name |-> "Phone model Y with recycled aluminum", carbon_score |-> 55,
            reason |-> "Uses 30% recycled aluminum reducing CO2 footprint."] >>]>>,
     <<"laptop", [carbon_score |-> 150, alternatives |-> <<
           [name |-> "Eco-friendly laptop brand A", carbon_score |-> 110,
            reason |-> "Energy-efficient and fair-trade materials."],
           [name |-> "Refurbished laptop model B", carbon_score |-> 100,
            reason |-> "Certified refurbished with extended warranty."] >>]>>,
     <<"clothing", [carbon_score |-> 40, alternatives |-> <<
           [name |-> "Organic cotton shirt", carbon_score |-> 25,
            reason |-> "Uses less water and no synthetic pesticides."],
           [name |-> "Recycled polyester jacket", carbon_score |-> 30,
            reason |-> "Made from recycled plastic bottles."] >>]>>,
     <<"home", [carbon_score |-> 60, alternatives |-> <<
           [name |-> "Sustainably sourced wooden chair", carbon_score |-> 45,
            reason |-> "Uses certified sustainable wood."],
           [name |-> "Energy-efficient LED lamp", carbon_score |-> 40,
            reason |-> "Consumes less electricity and lasts longer."] >>]>>,
     <<"electronics", [carbon_score |-> 100, alternatives |-> <<
           [name |-> "Certified refurbished camera", carbon_score |-> 75,
            reason |-> "Reuses components to reduce manufacturing."],
           [name |-> "Energy Star rated speaker", carbon_score |-> 80,
            reason |-> "Designed for low energy consumption."] >>]>>,
     <<"beauty", [carbon_score |-> 30, alternatives |-> <<
           [name |-> "Biodegradable skincare set", carbon_score |-> 20,
            reason |-> "Natural ingredients and eco-friendly packaging."],
           [name |-> "Refillable makeup products", carbon_score |-> 22,
            reason |-> "Reduces plastic waste and packaging footprint."] >>]>> >>

PRODUCT_KEYWORDS ==
  << <<"phone", <<
        <<"p","h","o","n","e">>,
        <<"m","o","b","i","l","e">>,
        <<"c","e","l","l","p","h","o","n","e">>,
        <<"s","m","a","r","t","p","h","o","n","e">>,
        <<"i","p","h","o","n","e">>,
        <<"a","n","d","r","o","i","d"," ","p","h","o","n","e">>,
        <<"r","e","f","u","r","b","i","s","h","e","d"," ","p","h","o","n","e">>,
        <<"h","a","n","d","s","e","t">>,
        <<"c","e","l","l">>,
        <<"m","o","b","i","l","e"," ","p","h","o","n","e">> >> >>,
     <<"laptop", <<
        <<"l","a","p","t","o","p">>,
        <<"n","o","t","e","b","o","o","k">>,
        <<"m","a","c","b","o","o","k">>,
        <<"c","h","r","o","m","e","b","o","o","k">>,
        <<"r","e","f","u","r","b","i","s","h","e","d"," ","l","a","p","t","o","p">>,
        <<"c","o","m","p","u","t","e","r">>,
        <<"p","c">>,
        <<"u","l","t","r","a","b","o","o","k">> >> >>,
     <<"clothing", <<
        <<"c","l","o","t","h","i","n","g">>,
        <<"c","l","o","t","h","e","s">>,
        <<"s","h","i","r","t">>,
        <<"t","-","s","h","i","r","t">>,
        <<"j","a","c","k","e","t">>,
        <<"j","e","a","n","s">>,
        <<"d","r","e","s","s">>,
        <<"p","a","n","t","s">>,
        <<"a","p","p","a","r","e","l">>,
        <<"o","u","t","f","i","t">>,
        <<"g","a","r","m","e","n","t">>,
        <<"r","e","f","u","r","b","i","s","h","e","d"," ","c","l","o","t","h","e","s">>,
        <<"o","r","g","a","n","i","c"," ","c","o","t","t","o","n">> >> >>,
     <<"home", <<
        <<"f","u","r","n","i","t","u","r","e">>,
        <<"s","o","f","a">>,
        <<"t","a","b","l","e">>,
        <<"c","h","a","i","r">>,
        <<"b","e","d">>,
        <<"h","o","m","e"," ","d","e","c","o","r">>,
        <<"c","u","r","t","a","i","n">>,
        <<"c","a","r","p","e","t">>,
        <<"l","a","m","p">>,
        <<"c","u","s","h","i","o","n">> >> >>,
     <<"electronics", <<
        <<"e","l","e","c","t","r","o","n","i","c","s">>,
        <<"g","a","d","g","e","t">>,
        <<"d","e","v","i","c","e">>,
        <<"c","a","m","e","r","a">>,
        <<"h","e","a","d","p","h","o","n","e">>,
        <<"s","p","e","a","k","e","r">>,
        <<"t","v">>,
        <<"m","o","n","i","t","o","r">>,
        <<"t","a","b","l","e","t">>,
        <<"c","o","n","s","o","l","e">> >> >>,
     <<"beauty", <<
        <<"b","e","a","u","t","y">>,
        <<"c","o","s","m","e","t","i","c">>,
        <<"m","a","k","e","u","p">>,
        <<"s","k","i","n","c","a","r","e">>,
        <<"c","r","e","a","m">>,
        <<"l","o","t","i","o","n">>,
        <<"p","e","r","f","u","m","e">>,
        <<"p","e","r","s","o","n","a","l"," ","c","a","r","e">> >> >> >>

FALLBACK_RESPONSES ==
  << "Oops! We're still working on that one. Please try something else! (smile)",
     "Hmm, I didn't quite get that. Could you try another input? (seedling)",
     "Our eco-bot is learning new things every day. Try a different product or choice! (globe)",
     "Sorry, I don't have info on that yet, but stay tuned for updates! (green heart)",
     "I'm still growing my knowledge garden. Give me another try! (herb)" >>

main_VALID_TOKENS ==
  << <<"EcoFitToken12345", "919441391981">> >>

main_CO2_FACTORS ==
  << <<"transport",
        << <<"Car", 230>>,
           <<"Bus", 80>>,
           <<"Bicycle", 5>>,
           <<"Walking", 0>>,
           <<"Electric Scooter", 20>> >>>>,
     <<"shopping",
        << <<"Groceries & Food", 100>>,
           <<"Clothing & Fashion", 250>>,
           <<"Electronics & Gadgets", 300>>,
           <<"Home & Living", 150>>,
           <<"Beauty & Personal Care", 120>> >>>>,
     <<"electronics_freq",
        << <<"Every year", 250>>,
           <<"Every 2-3 years", 100>>,
           <<"Rarely", 30>> >>>> >>

TIPS ==
  << "Freeze bread to reduce food waste.",
     "Unplug chargers to avoid phantom energy loss.",
     "Use eco mode on washing machines.",
     "Buy refurbished electronics instead of new.",
     "Switch to LED lights for instant savings." >>
----------------------------------------------------------------------------
(* rapidfuzz.fuzz.partial_ratio, as called at src/api.py:293 *)

\* One row of the longest-common-subsequence table: prev is the row of the
\* previous character of s1, both rows indexed 1..Len(s2)+1 for columns 0..Len(s2).
\* (The tests on cell and row only make TLC compute each value before it goes on:
\* it evaluates the arguments of an operator lazily.)
RECURSIVE LcsRow(_, _, _, _, _)
LcsRow(ch, s2, prev, j, acc) ==
  IF j > Len(s2) THEN acc
  ELSE LET cell == IF ch = s2[j] THEN prev[j] + 1 ELSE Max(prev[j + 1], acc[j])
       IN  IF cell >= 0 THEN LcsRow(ch, s2, prev, j + 1, Append(acc, cell)) ELSE acc

RECURSIVE LcsRows(_, _, _, _)
LcsRows(s1, s2, i, prev) ==
  IF i > Len(s1) THEN prev[Len(s2) + 1]
  ELSE LET row == LcsRow(s1[i], s2, prev, 1, <<0>>)
       IN  IF Len(row) > 0 THEN LcsRows(s1, s2, i + 1, row) ELSE 0

lcs_seq_similarity(s1, s2) == LcsRows(s1, s2, 1, [j \in 1..Len(s2) + 1 |-> 0])

\* A score num/den as a reduced fraction.
Score(num, den) == LET g == Gcd(num, den) IN <<num \div g, den \div g>>

ScoreGT(a, b) == a[1] * b[2] > b[1] * a[2]

ScoreGE(a, n) == a[1] >= n * a[2]

\* fuzz.ratio: the normalized Indel similarity, 100 * 2*lcs / (len1 + len2)
ratio(s1, s2) ==
  IF Len(s1) + Len(s2) = 0 THEN Score(100, 1)
  ELSE Score(200 * lcs_seq_similarity(s1, s2), Len(s1) + Len(s2))

\* The substrings of the longer string s2 that the alignment search compares
\* with the needle s1: the prefixes shorter than s1, the windows of the length of
\* s1, and the suffixes; a window is skipped when its last character (its first,
\* for a suffix) does not occur in s1.
AlignmentWindows(s1, s2) ==
  LET len1 == Len(s1)
      len2 == Len(s2)
      s1_char_set == {s1[k] : k \in 1..len1}
      InNeedle(k) == k \in 1..len2 /\ s2[k] \in s1_char_set
  IN  {SubSeq(s2, 1, i) : i \in {i \in 1..len1 - 1 : InNeedle(i)}}
      \cup {SubSeq(s2, i + 1, i + len1) :
              i \in {i \in 0..len2 - len1 - 1 : InNeedle(i + len1)}}
      \cup {SubSeq(s2, i + 1, len2) :
              i \in {i \in len2 - len1..len2 - 1 : InNeedle(i + 1)}}

MaxScoreOf(scores) ==
  IF scores = {} THEN Score(0, 1)
  ELSE CHOOSE s \in scores : \A t \in scores : ~ScoreGT(t, s)

partial_ratio_short_needle(s1, s2) ==
  MaxScoreOf({ratio(s1, w) : w \in AlignmentWindows(s1, s2)})

partial_ratio(s1, s2) ==
  IF Len(s1) = 0 /\ Len(s2) = 0 THEN Score(100, 1)
  ELSE LET shorter == IF Len(s1) <= Len(s2) THEN s1 ELSE s2
           longer == IF Len(s1) <= Len(s2) THEN s2 ELSE s1
           res == partial_ratio_short_needle(shorter, longer)
       IN  IF res # Score(100, 1) /\ Len(s1) = Len(s2)
           THEN MaxScoreOf({res, partial_ratio_short_needle(longer, shorter)})
           ELSE res

----------------------------------------------------------------------------
(* find_product_category, src/api.py:287-298 *)

FUZZY_THRESHOLD == 80

\* The test without its threshold: any positive score becomes the best.
IsNewBest_no_threshold(score, highest_score) == ScoreGT(score, highest_score)

\* The test with >= for >: a later pair with an equal score replaces the best.
IsNewBest_or_equal(score, highest_score) ==
  ~ScoreGT(highest_score, score) /\ ScoreGE(score, FUZZY_THRESHOLD)

\* if score > highest_score and score >= 80
IsNewBest(score, highest_score) ==
  ScoreGT(score, highest_score) /\ ScoreGE(score, FUZZY_THRESHOLD)

\* for kw in keywords: the locals best_match and highest_score after the
\* keywords i.. of one category
RECURSIVE KeywordLoop(_, _, _, _, _)
KeywordLoop(category, keywords, i, product_str, locals) ==
  IF i > Len(keywords) THEN locals
  ELSE LET score == partial_ratio(keywords[i], product_str)
       IN  KeywordLoop(category, keywords, i + 1, product_str,
                       IF IsNewBest(score, locals.highest_score)
                       THEN [best_match |-> Some(category), highest_score |-> score]
                       ELSE locals)

\* for category, keywords in PRODUCT_KEYWORDS.items()
RECURSIVE CategoryLoop(_, _, _, _)
CategoryLoop(keywords_table, c, product_str, locals) ==
  IF c > Len(keywords_table) THEN locals
  ELSE LET after == KeywordLoop(keywords_table[c][1], keywords_table[c][2], 1,
                                product_str, locals)
       IN  IF after.highest_score[2] > 0
           THEN CategoryLoop(keywords_table, c + 1, product_str, after)
           ELSE locals

\* The locals best_match (the value returned) and highest_score at the return.
find_product_category(keywords_table, product_str) ==
  CategoryLoop(keywords_table, 1, lower(product_str),
               [best_match |-> None, highest_score |-> Score(0, 1)])

----------------------------------------------------------------------------
(* Requests.  A request names the application it is sent to, the endpoint, *)
(* the Authorization header (the words between single spaces, as           *)
(* split(" ") cuts them) and the fields of the JSON body.                  *)

T_quiz == <<"q","u","i","z">>

T_calculate == <<"c","a","l","c","u","l","a","t","e">>

T_product == <<"p","r","o","d","u","c","t">>

T_challenge == <<"c","h","a","l","l","e","n","g","e">>

DIMENSIONS == <<"transport", "shopping", "electronics_freq">>

EmptyBody(app) ==
  [app |-> app, endpoint |-> "carbon_score", authorization |-> None,
   json_ok |-> TRUE, mode |-> None, answers |-> None,
   transport |-> None, shopping |-> None, electronics_freq |-> None,
   product |-> None, my_score |-> None, friend_score |-> None]

NoRequest == [EmptyBody("none") EXCEPT !.endpoint = "none"]

APPS == {"api", "main"}

\* Authorization headers: absent, empty, the valid token, an unknown token,
\* another scheme, "Bearer" alone and "Bearer " with nothing after it.
AuthorizationInputs ==
  {None, Some(<<"">>), Some(<<"Bearer", "EcoFitToken12345">>),
   Some(<<"Bearer", "EcoFitToken99999">>), Some(<<"Basic", "EcoFitToken12345">>),
   Some(<<"Bearer">>), Some(<<"Bearer", "">>)}

\* Labels sent for a dimension: absent (or null), empty, one that is in no
\* table, and valid ones.
TransportInputs == {None, Some(""), Some("Plane"), Some("Car")}

\* main.py draws three tips where api.py draws and shuffles five: its requests
\* can afford a second valid label, one whose weight is not a whole tenth.
MainTransportInputs == TransportInputs \cup {Some("Bicycle")}

ShoppingInputs == {None, Some(""), Some("Shoes"), Some("Groceries & Food")}

ElectronicsFreqInputs == {None, Some(""), Some("Never"), Some("Rarely")}

\* Modes: the four known ones, one in capitals, an unknown one, and none.
ModeInputs ==
  {Some(T_quiz), Some(T_calculate), Some(T_product), Some(T_challenge),
   Some(<<"Q","u","i","z">>), Some(<<"d","a","n","c","e">>), None}

\* Scores of the challenge mode: absent, or an integer from -1 to MaxInputScore.
MaxInputScore == 3

ScoreInputs == {None} \cup {Some(n) : n \in (0 - 1)..MaxInputScore}

RECURSIVE AllKeywords(_, _)
AllKeywords(keywords_table, c) ==
  IF c > Len(keywords_table) THEN {}
  ELSE {keywords_table[c][2][i] : i \in 1..Len(keywords_table[c][2])}
       \cup AllKeywords(keywords_table, c + 1)

\* Product texts: every keyword used verbatim, and texts with no match, with a
\* match inside a sentence and in capitals, with a misspelling, and with
\* keywords of two categories at once.
CraftedTexts ==
  { <<>>,
    <<"x","y","z","z","y","-","n","o","n","s","e","n","s","e","-","t","e","r","m">>,
    <<"I"," ","w","a","n","t"," ","a"," ","n","e","w"," ","S","m","a","r","t","p",
      "h","o","n","e"," ","p","l","e","a","s","e">>,
    <<"l","a","b","t","o","p">>,
    <<"f","o","n","e">>,
    <<"b","i","k","e">>,
    <<"k","r","e","a","m">>,
    <<"T","a","b","l","e","t">>,
    <<"p","h","o","n","e"," ","l","a","p","t","o","p">>,
    <<"l","a","p","t","o","p"," ","p","h","o","n","e">> }

\* The texts the resolver is checked on
ResolverTexts == CraftedTexts \cup AllKeywords(PRODUCT_KEYWORDS, 1)

\* The first keyword of every category
FirstKeywords(keywords_table) ==
  {keywords_table[c][2][1] : c \in 1..Len(keywords_table)}

\* Product fields of the requests to the handler: none, the crafted texts, and
\* a text for each category of the catalog.
ProductInputs ==
  {None} \cup {Some(t) : t \in CraftedTexts \cup FirstKeywords(PRODUCT_KEYWORDS)}

\* main.py does not resolve the product text: two texts stand for all.
MainProductInputs ==
  {None, Some(<<>>), Some(<<"p","h","o","n","e">>)}

ValidateRequests ==
  {[EmptyBody(app) EXCEPT !.endpoint = "validate", !.authorization = h] :
     app \in APPS, h \in AuthorizationInputs}

MalformedRequests == {[EmptyBody(app) EXCEPT !.json_ok = FALSE] : app \in APPS}

ModeOnlyRequests == {[EmptyBody(app) EXCEPT !.mode = m] : app \in APPS, m \in ModeInputs}

FlatCalculateRequests ==
  {[EmptyBody("api") EXCEPT !.mode = Some(T_calculate), !.transport = t,
                            !.shopping = s, !.electronics_freq = e] :
     t \in TransportInputs, s \in ShoppingInputs, e \in ElectronicsFreqInputs}
  \cup {[EmptyBody("main") EXCEPT !.mode = Some(T_calculate), !.transport = t,
                                  !.shopping = s, !.electronics_freq = e] :
          t \in MainTransportInputs, s \in ShoppingInputs,
          e \in ElectronicsFreqInputs}

NestedCalculateRequests ==
  {[EmptyBody(app) EXCEPT !.mode = Some(T_calculate),
                          !.answers = Some([transport |-> t, shopping |-> s,
                                            electronics_freq |-> e])] :
     app \in APPS, t \in TransportInputs, s \in ShoppingInputs,
     e \in ElectronicsFreqInputs}

\* The requests that reach find_product_category, one for each text
ResolverRequests ==
  {[EmptyBody("api") EXCEPT !.mode = Some(T_product), !.product = Some(t)] :
     t \in ResolverTexts \ {<<>>}}

ProductRequests ==
  {[EmptyBody("api") EXCEPT !.mode = Some(T_product), !.product = p] :
     p \in ProductInputs}
  \cup {[EmptyBody("main") EXCEPT !.mode = Some(T_product), !.product = p] :
          p \in MainProductInputs}

ChallengeRequests ==
  {[EmptyBody(app) EXCEPT !.mode = Some(T_challenge), !.my_score = a,
                          !.friend_score = b] :
     app \in APPS, a \in ScoreInputs, b \in ScoreInputs}

Requests ==
  ValidateRequests \cup MalformedRequests \cup ModeOnlyRequests
  \cup FlatCalculateRequests \cup NestedCalculateRequests
  \cup ProductRequests \cup ChallengeRequests

----------------------------------------------------------------------------
(* State *)

VARIABLES
  api,    \* the module globals of src/api.py (its tables)
  main,   \* the module globals of src/main.py
  pc,     \* "idle", "handling" (a request is received), "responded"
  req,    \* the request being handled
  resp,   \* its response
  loc,    \* best_match and highest_score of the find_product_category call
  prev    \* what the previous call with the same request returned (see Resend)

vars == <<api, main, pc, req, resp, loc, prev>>

ApiGlobals ==
  [VALID_TOKENS |-> api_VALID_TOKENS, CO2_FACTORS |-> api_CO2_FACTORS,
   CATEGORY_EMOJIS |-> CATEGORY_EMOJIS, UNIQUE_TIPS |-> UNIQUE_TIPS,
   PRODUCT_DB |-> PRODUCT_DB, PRODUCT_KEYWORDS |-> PRODUCT_KEYWORDS,
   FALLBACK_RESPONSES |-> FALLBACK_RESPONSES]

MainGlobals ==
  [VALID_TOKENS |-> main_VALID_TOKENS, CO2_FACTORS |-> main_CO2_FACTORS,
   TIPS |-> TIPS]

NoResponse == [status |-> 0]

NoLocals == [best_match |-> None, highest_score |-> Score(0, 1)]

NoRank == [praise |-> "", percent |-> 0, emojis |-> <<>>]

NoPrevious == [status |-> 0, score |-> 0, rank |-> NoRank, category |-> None]

Init ==
  /\ api = ApiGlobals
  /\ main = MainGlobals
  /\ pc = "idle"
  /\ req = NoRequest
  /\ resp = NoResponse
  /\ loc = NoLocals
  /\ prev = NoPrevious

----------------------------------------------------------------------------
(* Responses *)

\* A response built by the handler: JSONResponse(content=..., status_code=...).
Rejection(status, message) == [status |-> status, message |-> message]

\* An exception that leaves the handler: the server answers 500.
Unhandled(exception) == [status |-> 500, exception |-> exception]

\* bool(x) of an Optional[str] label and of an Optional text
Truthy(label) == label # None /\ label[1] # ""

TruthyText(text) == text # None /\ Len(text[1]) > 0

----------------------------------------------------------------------------
(* POST /mcp/validate: src/api.py:267-280 and src/main.py:14-24 *)

\* authorization.startswith("Bearer "): the first word is Bearer and a space follows
StartsWithBearer(words) == Len(words) >= 2 /\ words[1] = "Bearer"

validate(tokens, authorization) ==
  IF authorization = None \/ authorization[1] = <<"">>
     \/ ~StartsWithBearer(authorization[1])
  THEN [status |-> 401, detail |-> "Missing or invalid Authorization header"]
  ELSE LET token == authorization[1][2]
           phone == DictGetOpt(tokens, token)
       IN  IF ~Truthy(phone)
           THEN [status |-> 403, detail |-> "Invalid token"]
           ELSE [status |-> 200, text |-> phone[1]]

----------------------------------------------------------------------------
(* The request models of src/api.py:227-258 *)

\* The three validators of AnswersModel: pydantic does not call a validator
\* on an Optional field that is None.
check_transport(factors, v) ==
  IF v = None THEN TRUE ELSE DictHas(DictGet(factors, "transport"), v[1])

check_shopping(factors, v) ==
  IF v = None THEN TRUE ELSE DictHas(DictGet(factors, "shopping"), v[1])

check_electronics_freq(factors, v) ==
  IF v = None THEN TRUE ELSE DictHas(DictGet(factors, "electronics_freq"), v[1])

\* AnswersModel(...) returns (TRUE) or raises ValidationError (FALSE)
AnswersModel(factors, fields) ==
  /\ check_transport(factors, fields.transport)
  /\ check_shopping(factors, fields.shopping)
  /\ check_electronics_freq(factors, fields.electronics_freq)

\* CarbonScoreRequest(**body): mode is required, answers is validated if present
CarbonScoreRequest(factors, body) ==
  IF body.mode = None THEN FALSE
  ELSE IF body.answers = None THEN TRUE
  ELSE AnswersModel(factors, body.answers[1])

FlatAnswers(body) ==
  [transport |-> body.transport, shopping |-> body.shopping,
   electronics_freq |-> body.electronics_freq]

\* The two try blocks at the head of the handler, src/api.py:302-313
api_body_accepted(g, body) == body.json_ok /\ CarbonScoreRequest(g.CO2_FACTORS, body)

api_mode(body) == lower(body.mode[1])

----------------------------------------------------------------------------
(* mode == "quiz" *)

api_quiz(g) ==
  [status |-> 200,
   questions |-> [i \in 1..Len(DIMENSIONS) |->
                    [id |-> DIMENSIONS[i],
                     options |-> DictKeys(DictGet(g.CO2_FACTORS, DIMENSIONS[i]))]]]

main_quiz ==
  [status |-> 200,
   questions |->
     << [id |-> "transport",
         options |-> <<"Car", "Bus", "Bicycle", "Walking", "Electric Scooter">>],
        [id |-> "shopping",
         options |-> <<"Groceries & Food", "Clothing & Fashion",
                       "Electronics & Gadgets", "Home & Living",
                       "Beauty & Personal Care">>],
        [id |-> "electronics_freq",
         options |-> <<"Every year", "Every 2-3 years", "Rarely">>] >>]

----------------------------------------------------------------------------
(* mode == "calculate" *)

\* Every label of answers is a key of its table (else indexing raises KeyError).
LabelsKnown(factors, answers) ==
  /\ DictHas(DictGet(factors, "transport"), answers.transport[1])
  /\ DictHas(DictGet(factors, "shopping"), answers.shopping[1])
  /\ DictHas(DictGet(factors, "electronics_freq"), answers.electronics_freq[1])

\* The sum of the three weights, in hundredths
WeightSum(factors, answers) ==
  DictGet(DictGet(factors, "transport"), answers.transport[1])
  + DictGet(DictGet(factors, "shopping"), answers.shopping[1])
  + DictGet(DictGet(factors, "electronics_freq"), answers.electronics_freq[1])

\* The sum left as it is, without the factor 100
footprint_score_unscaled(factors, answers) == WeightSum(factors, answers)

\* score = (... + ... + ...) * 100, in hundredths
footprint_score(factors, answers) == WeightSum(factors, answers) * 100

\* round(score, 1), in tenths
ScoreTenths(score) == RoundDiv(score, 10)

\* main.py returns score itself, unrounded: in tenths it is the exact value of
\* the expression (a whole number of tenths, the weights having two decimals),
\* which the float that Python computes approximates to 1e-13
ScoreUnrounded(score) == score \div 10

\* trees = round(score / 21.77) and car_km = round(score / 0.271)
equivalence(score) ==
  [trees |-> RoundDiv(score, 2177), car_km |-> RoundDiv(score * 10, 271)]

\* random.randint(1, 100): a draw in each praise band, on the thresholds 5 and
\* 20 and just past the second
RankDraws == {5, 20, 21}

\* The f-strings of src/api.py:351-365
api_praise(g, rank_percentile, answers) ==
  [praise |-> IF rank_percentile <= 5
              THEN "Outstanding! You're in the top 5% of eco-heroes!"
              ELSE IF rank_percentile <= 20
              THEN "Great job! You're among the top 20% of eco-conscious citizens!"
              ELSE "Good effort! You're in the top {rank_percentile}% of people making green choices.",
   percent |-> IF rank_percentile <= 5 THEN 5
               ELSE IF rank_percentile <= 20 THEN 20 ELSE rank_percentile,
   emojis |-> << DictGet(DictGet(g.CATEGORY_EMOJIS, "transport"), answers.transport[1]),
                 DictGet(DictGet(g.CATEGORY_EMOJIS, "shopping"), answers.shopping[1]),
                 DictGet(DictGet(g.CATEGORY_EMOJIS, "electronics_freq"),
                         answers.electronics_freq[1]) >>]

\* The f-string of src/main.py:96
main_praise(rank_percentile) ==
  [praise |-> "Wow! You're in the top {rank_percentile}% of eco-friendly citizens.",
   percent |-> rank_percentile, emojis |-> <<>>]

\* d.get(label, default) on the tips of one dimension
TipPool(tips, dimension, label, default) ==
  LET got == DictGetOpt(DictGet(tips, dimension), label)
  IN  IF got = None THEN default ELSE got[1]

\* random.sample(population, k): the k-element lists it can return; it raises
\* ValueError when k exceeds the population (CanSample is FALSE)
CanSample(population, k) == k <= Len(population)

\* random.choices(population, k=k): a draw with replacement, which can return
\* the same tip twice
Samples_with_replacement(population, k) ==
  {[i \in 1..k |-> population[f[i]]] : f \in [1..k -> 1..Len(population)]}

Samples(population, k) ==
  {[i \in 1..k |-> population[f[i]]] :
     f \in {f \in [1..k -> 1..Len(population)] :
              \A i, j \in 1..k : i # j => f[i] # f[j]}}

\* random.shuffle(x): the orders it can leave x in
Shuffles(x) ==
  {[i \in 1..Len(x) |-> x[p[i]]] :
     p \in {p \in [1..Len(x) -> 1..Len(x)] :
              \A i, j \in 1..Len(x) : i # j => p[i] # p[j]}}

\* The answers the api handler scores: data.answers or AnswersModel(flat fields)
api_answers(body) == IF body.answers # None THEN body.answers[1] ELSE FlatAnswers(body)

AllAnswered(answers) ==
  Truthy(answers.transport) /\ Truthy(answers.shopping) /\ Truthy(answers.electronics_freq)

api_calculate_response(g, answers, rank_percentile, tips) ==
  LET score == footprint_score(g.CO2_FACTORS, answers)
  IN  [status |-> 200,
       score |-> ScoreTenths(score),
       rank |-> api_praise(g, rank_percentile, answers),
       equivalence |-> equivalence(score),
       tips |-> tips]

main_calculate_response(g, answers, rank_percentile, tips) ==
  LET score == footprint_score(g.CO2_FACTORS, answers)
  IN  [status |-> 200,
       score |-> ScoreUnrounded(score),
       rank |-> main_praise(rank_percentile),
       equivalence |-> equivalence(score),
       tips |-> tips]

----------------------------------------------------------------------------
(* mode == "product" *)

get_fallback_response(g) == {g.FALLBACK_RESPONSES[i] : i \in 1..Len(g.FALLBACK_RESPONSES)}

\* alt["carbon_score"] <= base_score * 0.8 (the products are exact in binary
\* floating point for the six baselines)
\* The comparison with < for <=: an alternative at exactly 80% is left out.
IsBetter_strict(alt, base_score) == 10 * alt.carbon_score < 8 * base_score

IsBetter(alt, base_score) == 10 * alt.carbon_score <= 8 * base_score

RECURSIVE SelectBetter(_, _, _)
SelectBetter(alternatives, i, base_score) ==
  IF i > Len(alternatives) THEN <<>>
  ELSE (IF IsBetter(alternatives[i], base_score) THEN <<alternatives[i]>> ELSE <<>>)
       \o SelectBetter(alternatives, i + 1, base_score)

\* alternatives.sort(key=carbon_score): the list in ascending order
RECURSIVE InsertByScore(_, _)
InsertByScore(alt, sorted) ==
  IF sorted = <<>> THEN <<alt>>
  ELSE IF alt.carbon_score < Head(sorted).carbon_score THEN <<alt>> \o sorted
  ELSE <<Head(sorted)>> \o InsertByScore(alt, Tail(sorted))

RECURSIVE SortByScore(_, _)
SortByScore(alternatives, i) ==
  IF i = 0 THEN <<>>
  ELSE InsertByScore(alternatives[i], SortByScore(alternatives, i - 1))

\* The filter over the list of PRODUCT_DB sorted where it is, cheapest first
filter_alternatives_sorted_in_place(product_info) ==
  LET sorted == SortByScore(product_info.alternatives, Len(product_info.alternatives))
  IN  [product_info |-> [product_info EXCEPT !.alternatives = sorted],
       better_alternatives |-> SelectBetter(sorted, 1, product_info.carbon_score)]

\* src/api.py:395-398.  product_info is the dict held by PRODUCT_DB, not a copy:
\* the result names both what the list comprehension returns and product_info
\* as the statements leave it.
filter_alternatives(product_info) ==
  [product_info |-> product_info,
   better_alternatives |->
     SelectBetter(product_info.alternatives, 1, product_info.carbon_score)]

\* d with the value of key k replaced
DictSet(d, k, v) == [i \in 1..Len(d) |-> IF d[i][1] = k THEN <<k, v>> ELSE d[i]]

api_product_response(product_name, base_score, better_alternatives) ==
  [status |-> 200, product |-> product_name, carbon_score |-> base_score,
   alternatives |-> better_alternatives]

\* random.uniform(50, 200), in thousandths: the two ends and a value between
BaseScoreDraws == {50000, 123456, 200000}

\* src/main.py:107-118: round(base_score, 2) and round(base_score * 0.8, 2),
\* in hundredths
main_product_response(product_name, base_score) ==
  [status |-> 200, product |-> product_name,
   carbon_score |-> RoundDiv(base_score, 10),
   alternative |-> [carbon_score |-> RoundDiv(base_score * 8, 100)]]

----------------------------------------------------------------------------
(* mode == "challenge": src/api.py:415-427 and src/main.py:121-133 *)

AHEAD == "You're already beating your friend - keep it up!"

TRAILS == "Swap 2 car trips a week for cycling to beat them by {improvement}%!"

\* The message, with improvement in tenths of a percent:
\* round((my_score - friend_score) / my_score * 100, 1); dividing by a
\* my_score of 0 raises ZeroDivisionError.
challenge(my_score, friend_score) ==
  IF my_score < friend_score
  THEN [status |-> 200, message |-> AHEAD, improvement |-> None]
  ELSE IF my_score = 0
  THEN Unhandled("ZeroDivisionError")
  ELSE [status |-> 200, message |-> TRAILS,
        improvement |-> Some(RoundDiv((my_score - friend_score) * 1000, my_score))]

----------------------------------------------------------------------------
(* Actions *)

\* A client sends a request.
Receive ==
  /\ pc = "idle"
  /\ \E r \in Requests : req' = r
  /\ pc' = "handling"
  /\ UNCHANGED <<api, main, resp, loc, prev>>

Handling(app, endpoint) == pc = "handling" /\ req.app = app /\ req.endpoint = endpoint

\* The handler returns response r; l are the locals of find_product_category.
Finish(r, l) ==
  /\ resp' = r
  /\ loc' = l
  /\ pc' = "responded"
  /\ UNCHANGED <<req, prev>>

ApiValidate ==
  /\ Handling("api", "validate")
  /\ Finish(validate(api.VALID_TOKENS, req.authorization), NoLocals)
  /\ UNCHANGED <<api, main>>

MainValidate ==
  /\ Handling("main", "validate")
  /\ Finish(validate(main.VALID_TOKENS, req.authorization), NoLocals)
  /\ UNCHANGED <<api, main>>

\* src/api.py:302-313: the body is not JSON, or the request model rejects it
ApiReject ==
  /\ Handling("api", "carbon_score")
  /\ ~api_body_accepted(api, req)
  /\ Finish(Rejection(400, IF req.json_ok THEN "Validation error: {e}"
                           ELSE "Invalid JSON format. Please send valid JSON."),
            NoLocals)
  /\ UNCHANGED <<api, main>>

ApiQuiz ==
  /\ Handling("api", "carbon_score")
  /\ api_body_accepted(api, req)
  /\ api_mode(req) = T_quiz
  /\ Finish(api_quiz(api), NoLocals)
  /\ UNCHANGED <<api, main>>

\* src/api.py:331-379
ApiCalculate ==
  /\ Handling("api", "carbon_score")
  /\ api_body_accepted(api, req)
  /\ api_mode(req) = T_calculate
  /\ UNCHANGED <<api, main>>
  /\ IF req.answers = None /\ ~AnswersModel(api.CO2_FACTORS, FlatAnswers(req))
     THEN Finish(Unhandled("ValidationError"), NoLocals)
     ELSE LET answers == api_answers(req)
              transport_tips ==
                TipPool(api.UNIQUE_TIPS, "transport", answers.transport[1],
                        <<"Try reducing your transport emissions.">>)
              shopping_tips ==
                TipPool(api.UNIQUE_TIPS, "shopping", answers.shopping[1],
                        <<"Shop more sustainably.">>)
              electronics_tips ==
                TipPool(api.UNIQUE_TIPS, "electronics_freq", answers.electronics_freq[1],
                        <<"Reduce electronic waste.">>)
          IN  IF ~AllAnswered(answers)
              THEN Finish(Rejection(400, "Please provide answers for transport, shopping, and electronics_freq."),
                          NoLocals)
              ELSE IF ~LabelsKnown(api.CO2_FACTORS, answers)
                      \/ ~LabelsKnown(api.CATEGORY_EMOJIS, answers)
              THEN Finish(Unhandled("KeyError"), NoLocals)
              ELSE IF ~(CanSample(transport_tips, 2) /\ CanSample(shopping_tips, 2)
                        /\ CanSample(electronics_tips, 1))
              THEN Finish(Unhandled("ValueError"), NoLocals)
              ELSE \E rank_percentile \in RankDraws :
                   \E t \in Samples(transport_tips, 2) :
                   \E s \in Samples(shopping_tips, 2) :
                   \E e \in Samples(electronics_tips, 1) :
                   \E tips \in Shuffles(t \o s \o e) :
                     Finish(api_calculate_response(api, answers, rank_percentile, tips),
                            NoLocals)

\* src/api.py:381-413
ApiProduct ==
  /\ Handling("api", "carbon_score")
  /\ api_body_accepted(api, req)
  /\ api_mode(req) = T_product
  /\ UNCHANGED main
  /\ IF ~TruthyText(req.product)
     THEN /\ Finish(Rejection(400, "Please provide a product name or URL to analyze."),
                    NoLocals)
          /\ UNCHANGED api
     ELSE \E found \in {find_product_category(api.PRODUCT_KEYWORDS, req.product[1])} :
            LET category == found.best_match
                product_info == IF category = None THEN None
                                ELSE DictGetOpt(api.PRODUCT_DB, category[1])
            IN  IF product_info = None
                THEN /\ \E message \in get_fallback_response(api) :
                          Finish([status |-> 200, message |-> message], found)
                     /\ UNCHANGED api
                ELSE \E filtered \in {filter_alternatives(product_info[1])} :
                       /\ api' = [api EXCEPT !.PRODUCT_DB =
                                    DictSet(@, category[1], filtered.product_info)]
                       /\ Finish(api_product_response(req.product[1],
                                                      filtered.product_info.carbon_score,
                                                      filtered.better_alternatives),
                                 found)

\* src/api.py:415-427
ApiChallenge ==
  /\ Handling("api", "carbon_score")
  /\ api_body_accepted(api, req)
  /\ api_mode(req) = T_challenge
  /\ IF req.my_score = None \/ req.friend_score = None
     THEN Finish(Rejection(400, "Please provide both my_score and friend_score for challenge mode."),
                 NoLocals)
     ELSE Finish(challenge(req.my_score[1], req.friend_score[1]), NoLocals)
  /\ UNCHANGED <<api, main>>

\* src/api.py:429
ApiInvalidMode ==
  /\ Handling("api", "carbon_score")
  /\ api_body_accepted(api, req)
  /\ api_mode(req) \notin {T_quiz, T_calculate, T_product, T_challenge}
  /\ Finish(Rejection(400, "Invalid mode. Use quiz, calculate, product, or challenge."),
            NoLocals)
  /\ UNCHANGED <<api, main>>

\* src/main.py:58: request.json() raises on a body that is not JSON
MainMalformed ==
  /\ Handling("main", "carbon_score")
  /\ ~req.json_ok
  /\ Finish(Unhandled("JSONDecodeError"), NoLocals)
  /\ UNCHANGED <<api, main>>

MainQuiz ==
  /\ Handling("main", "carbon_score")
  /\ req.json_ok
  /\ req.mode = Some(T_quiz)
  /\ Finish(main_quiz, NoLocals)
  /\ UNCHANGED <<api, main>>

\* src/main.py:76-99
MainCalculate ==
  /\ Handling("main", "carbon_score")
  /\ req.json_ok
  /\ req.mode = Some(T_calculate)
  /\ UNCHANGED <<api, main>>
  /\ LET answers == FlatAnswers(req)
     IN  IF ~AllAnswered(answers)
         THEN Finish(Rejection(400, "Missing answers"), NoLocals)
         ELSE IF ~LabelsKnown(main.CO2_FACTORS, answers)
         THEN Finish(Unhandled("KeyError"), NoLocals)
         ELSE IF ~CanSample(main.TIPS, 3)
         THEN Finish(Unhandled("ValueError"), NoLocals)
         ELSE \E rank_percentile \in RankDraws :
              \E tips \in Samples(main.TIPS, 3) :
                Finish(main_calculate_response(main, answers, rank_percentile, tips),
                       NoLocals)

\* src/main.py:102-118
MainProduct ==
  /\ Handling("main", "carbon_score")
  /\ req.json_ok
  /\ req.mode = Some(T_product)
  /\ UNCHANGED <<api, main>>
  /\ IF ~TruthyText(req.product)
     THEN Finish(Rejection(400, "Product name or URL required"), NoLocals)
     ELSE \E base_score \in BaseScoreDraws :
            Finish(main_product_response(req.product[1], base_score), NoLocals)

\* src/main.py:121-133
MainChallenge ==
  /\ Handling("main", "carbon_score")
  /\ req.json_ok
  /\ req.mode = Some(T_challenge)
  /\ IF req.my_score = None \/ req.friend_score = None
     THEN Finish(Rejection(400, "Both my_score and friend_score are required"), NoLocals)
     ELSE Finish(challenge(req.my_score[1], req.friend_score[1]), NoLocals)
  /\ UNCHANGED <<api, main>>

\* src/main.py:136
MainInvalidMode ==
  /\ Handling("main", "carbon_score")
  /\ req.json_ok
  /\ req.mode \notin {Some(T_quiz), Some(T_calculate), Some(T_product), Some(T_challenge)}
  /\ Finish(Rejection(400, "Invalid mode. Use quiz, calculate, product, or challenge."),
            NoLocals)
  /\ UNCHANGED <<api, main>>

\* What a client that repeats a request keeps of the answer to compare the next
\* one with: the status, the score and the rank of a calculate, and the category
\* of a product.
Digest(r, l) ==
  [status |-> r.status,
   score |-> IF "score" \in DOMAIN r THEN r.score ELSE 0,
   rank |-> IF "rank" \in DOMAIN r THEN r.rank ELSE NoRank,
   category |-> l.best_match]

\* The client sends the same request again.
Resend ==
  /\ pc = "responded"
  /\ prev' = Digest(resp, loc)
  /\ pc' = "handling"
  /\ resp' = NoResponse
  /\ loc' = NoLocals
  /\ UNCHANGED <<api, main, req>>

\* The exchange is over; the server waits for the next request.
Reply ==
  /\ pc = "responded"
  /\ pc' = "idle"
  /\ req' = NoRequest
  /\ resp' = NoResponse
  /\ loc' = NoLocals
  /\ prev' = NoPrevious
  /\ UNCHANGED <<api, main>>

Next ==
  \/ Receive
  \/ ApiValidate
  \/ MainValidate
  \/ ApiReject
  \/ ApiQuiz
  \/ ApiCalculate
  \/ ApiProduct
  \/ ApiChallenge
  \/ ApiInvalidMode
  \/ MainMalformed
  \/ MainQuiz
  \/ MainCalculate
  \/ MainProduct
  \/ MainChallenge
  \/ MainInvalidMode
  \/ Resend
  \/ Reply

Spec == Init /\ [][Next]_vars

----------------------------------------------------------------------------
(* The resolver on its own: a product request is received for each text,   *)
(* handled, sent again and handled again.                                   *)

ResolverInit ==
  /\ api = ApiGlobals
  /\ main = MainGlobals
  /\ pc = "handling"
  /\ req \in ResolverRequests
  /\ resp = NoResponse
  /\ loc = NoLocals
  /\ prev = NoPrevious

ResolverNext ==
  \/ ApiProduct
  \/ Resend

ResolverSpec == ResolverInit /\ [][ResolverNext]_vars

----------------------------------------------------------------------------
(* Properties of find_product_category *)

\* A product request whose text went through find_product_category is answered.
Resolved ==
  /\ pc = "responded"
  /\ req.app = "api"
  /\ req.mode = Some(T_product)
  /\ TruthyText(req.product)

\* The best score of the keywords of category number c against the text
CategoryBest(c, text) ==
  MaxScoreOf({partial_ratio(PRODUCT_KEYWORDS[c][2][i], lower(text)) :
                i \in 1..Len(PRODUCT_KEYWORDS[c][2])})

\* The best scores of the categories c.. in table order
RECURSIVE CategoryBests(_, _)
CategoryBests(c, text) ==
  IF c > Len(PRODUCT_KEYWORDS) THEN <<>>
  ELSE <<CategoryBest(c, text)>> \o CategoryBests(c + 1, text)

TableBest(bests) == MaxScoreOf({bests[c] : c \in 1..Len(bests)})

\* The categories that list the text itself as a keyword
Owners(text) ==
  {PRODUCT_KEYWORDS[c][1] :
     c \in {c \in 1..Len(PRODUCT_KEYWORDS) :
              \E i \in 1..Len(PRODUCT_KEYWORDS[c][2]) :
                PRODUCT_KEYWORDS[c][2][i] = text}}

\* C1: a keyword used verbatim as the product text resolves to the category
\* that lists it.
C1_SelfMatch ==
  Resolved => \A c \in Owners(req.product[1]) : loc.best_match = Some(c)

\* C2: a category is returned exactly when some keyword scores at least 80
\* against the lower-cased text, the category returned owns a keyword with the
\* highest score of the whole table, and otherwise nothing is returned.
C2_DecisionRule ==
  Resolved =>
    \A bests \in {CategoryBests(1, req.product[1])} :
      IF ScoreGE(TableBest(bests), FUZZY_THRESHOLD)
      THEN /\ loc.best_match # None
           /\ \E c \in 1..Len(PRODUCT_KEYWORDS) :
                /\ PRODUCT_KEYWORDS[c][1] = loc.best_match[1]
                /\ bests[c] = TableBest(bests)
      ELSE loc.best_match = None

\* A text that contains a keyword in capitals inside a sentence is resolved.
C2_Witness ==
  /\ Resolved
  /\ req.product = Some(<<"I"," ","w","a","n","t"," ","a"," ","n","e","w"," ",
                          "S","m","a","r","t","p","h","o","n","e"," ",
                          "p","l","e","a","s","e">>)
  /\ loc.best_match = Some("phone")
  /\ resp.status = 200

\* C3: when several categories reach the highest score (at least 80), the one
\* returned is the first of them in table order, and the same text sent again
\* resolves to the same category.
C3_TieBreak ==
  Resolved =>
    /\ \A bests \in {CategoryBests(1, req.product[1])} :
         ScoreGE(TableBest(bests), FUZZY_THRESHOLD) =>
           \E c \in 1..Len(bests) :
             /\ bests[c] = TableBest(bests)
             /\ \A d \in 1..c - 1 : bests[d] # TableBest(bests)
             /\ loc.best_match = Some(PRODUCT_KEYWORDS[c][1])
    /\ prev.status # 0 => prev.category = loc.best_match

\* "tablet" scores 100 against "table" (home) and against "tablet"
\* (electronics): the second call returns home, as the first did.
C3_Witness ==
  /\ Resolved
  /\ req.product = Some(<<"t","a","b","l","e","t">>)
  /\ prev.status = 200
  /\ prev.category = Some("home")
  /\ loc.best_match = Some("home")
  /\ CategoryBest(4, req.product[1]) = Score(100, 1)
  /\ CategoryBest(5, req.product[1]) = Score(100, 1)

----------------------------------------------------------------------------
(* Properties of mode "calculate" *)

\* A calculate request that passed the JSON parsing is answered.
CalculateAnswered ==
  /\ pc = "responded"
  /\ req.endpoint = "carbon_score"
  /\ req.json_ok
  /\ req.mode = Some(T_calculate)

\* The labels the request carries, nested in answers or flat
Sent(r) == IF r.answers # None THEN r.answers[1] ELSE FlatAnswers(r)

\* The CO2_FACTORS of the application the request is sent to
FactorsOf(r) == IF r.app = "api" THEN api.CO2_FACTORS ELSE main.CO2_FACTORS

\* A label is sent for the dimension and is no key of its table.
Unlisted(factors, dimension, label) ==
  Truthy(label) /\ ~DictHas(DictGet(factors, dimension), label[1])

InvalidChoice(r) ==
  \/ Unlisted(FactorsOf(r), "transport", Sent(r).transport)
  \/ Unlisted(FactorsOf(r), "shopping", Sent(r).shopping)
  \/ Unlisted(FactorsOf(r), "electronics_freq", Sent(r).electronics_freq)

\* A dimension is omitted, null or empty.
MissingAnswer(r) == ~AllAnswered(Sent(r))

\* C4: a calculate request with a label that is in no table is answered with a
\* rejection (a 4xx response), never with a score or an unhandled exception.
C4_InvalidChoiceRejected ==
  (CalculateAnswered /\ InvalidChoice(req)) => resp.status \in 400..499

\* C5: a calculate request that omits a dimension, or leaves it null or empty,
\* is answered with status 400.
C5_MissingAnswerRejected ==
  (CalculateAnswered /\ MissingAnswer(req) /\ ~InvalidChoice(req)) =>
    resp.status = 400

CalculateSucceeded == CalculateAnswered /\ resp.status = 200

CarGroceriesRarely ==
  [transport |-> Some("Car"), shopping |-> Some("Groceries & Food"),
   electronics_freq |-> Some("Rarely")]

\* C6 as stated: Car (2.3), Groceries (1.0) and Rarely (0.3) score 3.6, that is
\* 36 tenths.
C6_UnscaledScore ==
  (CalculateSucceeded /\ Sent(req) = CarGroceriesRarely) => resp.score = 36

\* C6: the score of a successful calculate is 100 times the sum of the three
\* chosen weights (the sum is in hundredths and the score in tenths): 360.0 for
\* Car, Groceries & Food and Rarely.
C6_ScaledScore ==
  CalculateSucceeded =>
    /\ resp.score = 10 * WeightSum(FactorsOf(req), Sent(req))
    /\ Sent(req) = CarGroceriesRarely => resp.score = 3600

C6_Witness ==
  /\ CalculateSucceeded
  /\ req.app = "api"
  /\ Sent(req) = CarGroceriesRarely
  /\ resp.score = 3600

\* C7: the same valid triple sent again gets the same score and the same
\* rank; only the tips may differ.
C7_SameTier ==
  (CalculateSucceeded /\ prev.status = 200) =>
    /\ prev.score = resp.score
    /\ prev.rank = resp.rank

----------------------------------------------------------------------------
(* Properties of mode "challenge" *)

\* A challenge request with two numeric scores is answered.
ChallengeAnswered ==
  /\ pc = "responded"
  /\ req.endpoint = "carbon_score"
  /\ req.json_ok
  /\ req.mode = Some(T_challenge)
  /\ req.my_score # None
  /\ req.friend_score # None

\* C8: equal scores get a tie message, which is neither the message for being
\* ahead nor the message for trailing.
C8_TieMessage ==
  (ChallengeAnswered /\ req.my_score = req.friend_score) =>
    /\ resp.status = 200
    /\ resp.message \notin {AHEAD, TRAILS}

\* C9: every pair of numeric scores, my_score = 0 included, gets a message and
\* no unhandled fault.
C9_NoFault == ChallengeAnswered => resp.status = 200

----------------------------------------------------------------------------
(* Properties of the tables *)

\* C10: the tables are at all times what they were at process start.
C10_TablesUnchanged == api = ApiGlobals /\ main = MainGlobals

\* A product request that resolved to laptop is answered with the catalog's
\* alternatives, and PRODUCT_DB is as it was.
C10_Witness ==
  /\ pc = "responded"
  /\ req.mode = Some(T_product)
  /\ loc.best_match = Some("laptop")
  /\ resp.status = 200
  /\ Len(resp.alternatives) = 2
  /\ api.PRODUCT_DB = PRODUCT_DB

----------------------------------------------------------------------------
(* Properties of mode "product" in api.py *)

\* The alternatives of a catalog entry at or below 80% of its baseline, in
\* catalog order
AtMost80Percent(entry) ==
  SelectSeq(entry.alternatives,
            LAMBDA alt : 10 * alt.carbon_score <= 8 * entry.carbon_score)

\* C11: a text that resolves to a category is answered with the baseline
\* carbon_score of that category in PRODUCT_DB and with exactly the catalog
\* alternatives at or below 80% of the baseline, in catalog order; a text with
\* no match (or a category with no catalog entry) is answered with no
\* carbon_score and one of the FALLBACK_RESPONSES.
C11_ProductResponse ==
  Resolved =>
    IF loc.best_match # None /\ DictHas(PRODUCT_DB, loc.best_match[1])
    THEN /\ resp.status = 200
         /\ resp.product = req.product[1]
         /\ resp.carbon_score = DictGet(PRODUCT_DB, loc.best_match[1]).carbon_score
         /\ resp.alternatives = AtMost80Percent(DictGet(PRODUCT_DB, loc.best_match[1]))
         /\ \A i \in 1..Len(resp.alternatives) :
              10 * resp.alternatives[i].carbon_score <= 8 * resp.carbon_score
    ELSE /\ resp.status = 200
         /\ "carbon_score" \notin DOMAIN resp
         /\ \E i \in 1..Len(FALLBACK_RESPONSES) : resp.message = FALLBACK_RESPONSES[i]

\* "electronics" resolves to electronics (baseline 100): the alternative with
\* carbon_score 80, exactly 80% of the baseline, is listed after the one with 75.
C11_Witness ==
  /\ Resolved
  /\ loc.best_match = Some("electronics")
  /\ resp.carbon_score = 100
  /\ Len(resp.alternatives) = 2
  /\ resp.alternatives[1].carbon_score = 75
  /\ resp.alternatives[2].carbon_score = 80

----------------------------------------------------------------------------
(* The tip selection of api.py on its own: a calculate request is received *)
(* for triples of valid labels that between them use every label of        *)
(* CO2_FACTORS, and handled.                                               *)

\* The i-th label of a dimension, counting round the end of its table
LabelAt(dimension, i) ==
  LET labels == DictKeys(DictGet(api_CO2_FACTORS, dimension))
  IN  labels[((i - 1) % Len(labels)) + 1]

TipRequests ==
  {[EmptyBody("api") EXCEPT !.mode = Some(T_calculate),
                            !.transport = Some(LabelAt("transport", i)),
                            !.shopping = Some(LabelAt("shopping", i)),
                            !.electronics_freq = Some(LabelAt("electronics_freq", i))] :
     i \in 1..Len(DictGet(api_CO2_FACTORS, "transport"))}

TipsInit ==
  /\ api = ApiGlobals
  /\ main = MainGlobals
  /\ pc = "handling"
  /\ req \in TipRequests
  /\ resp = NoResponse
  /\ loc = NoLocals
  /\ prev = NoPrevious

TipsNext == ApiCalculate

TipsSpec == TipsInit /\ [][TipsNext]_vars

----------------------------------------------------------------------------
(* Properties of the tip selection *)

\* The number of tips drawn for each dimension, src/api.py:368-370
TipsDrawn(dimension) == IF dimension = "electronics_freq" THEN 1 ELSE 2

\* The tips registered in UNIQUE_TIPS for a label, as a set
Registered(dimension, label) ==
  LET pool == DictGet(DictGet(UNIQUE_TIPS, dimension), label)
  IN  {pool[i] : i \in 1..Len(pool)}

\* Every label of CO2_FACTORS has at least as many tips as are drawn for it.
EnoughTips ==
  \A d \in 1..Len(DIMENSIONS) :
    LET labels == DictKeys(DictGet(api_CO2_FACTORS, DIMENSIONS[d]))
    IN  \A i \in 1..Len(labels) :
          /\ DictHas(DictGet(UNIQUE_TIPS, DIMENSIONS[d]), labels[i])
          /\ Len(DictGet(DictGet(UNIQUE_TIPS, DIMENSIONS[d]), labels[i]))
               >= TipsDrawn(DIMENSIONS[d])

\* The tips of the response that are registered for the label: where they are
\* and what they are
TipPlaces(dimension, label) ==
  {i \in 1..Len(resp.tips) : resp.tips[i] \in Registered(dimension, label)}

TipsOf(dimension, label) ==
  {resp.tips[i] : i \in TipPlaces(dimension, label)}

\* A calculate request to api.py with three valid labels is answered.
ValidTripleAnswered ==
  /\ CalculateAnswered
  /\ req.app = "api"
  /\ AllAnswered(Sent(req))
  /\ ~InvalidChoice(req)

\* C12: no label has fewer tips than are drawn for it, so the draw of a valid
\* triple never fails, and the response has exactly 5 tips: 2 distinct tips of
\* the transport label, 2 distinct tips of the shopping label and 1 tip of the
\* electronics_freq label.
C12_TipSelection ==
  /\ EnoughTips
  /\ ValidTripleAnswered =>
       /\ resp.status = 200
       /\ Len(resp.tips) = 5
       /\ \A d \in 1..Len(DIMENSIONS) :
            LET label == IF d = 1 THEN Sent(req).transport[1]
                         ELSE IF d = 2 THEN Sent(req).shopping[1]
                         ELSE Sent(req).electronics_freq[1]
            IN  /\ Cardinality(TipPlaces(DIMENSIONS[d], label)) = TipsDrawn(DIMENSIONS[d])
                /\ Cardinality(TipsOf(DIMENSIONS[d], label)) = TipsDrawn(DIMENSIONS[d])

\* Walking, Home & Living and Every year: the tip for electronics_freq comes
\* first and the two tips for transport last.
C12_Witness ==
  /\ ValidTripleAnswered
  /\ Sent(req).transport = Some("Walking")
  /\ resp.status = 200
  /\ Len(resp.tips) = 5
  /\ resp.tips[1] \in Registered("electronics_freq", Sent(req).electronics_freq[1])
  /\ TipPlaces("transport", "Walking") = {4, 5}

====
